---- MODULE Spec2Model ----
(***************************************************************************)
(* platform-starter (cmd/platform-starter/main.go): a single-pass          *)
(* provisioning run.  The state is the host the program acts on (PATH,     *)
(* globally installed packages, the files the program reads and writes,    *)
(* the git repository of the working directory) and the position of the    *)
(* run in `run`.  Every action is one call made by `run`.                  *)
(***************************************************************************)
EXTENDS Integers, Sequences, FiniteSets, TLC

VARIABLES
    npmForce,   \* ctx.Bool("npm")
    dir,        \* filepath.Abs(ctx.String("dir"))
    umask,      \* the process file-mode creation mask
    binLinked,  \* whether the package managers' global bin directory is on PATH
    onPath,     \* names exec.LookPath resolves
    installed,  \* names whose global install command has succeeded
    fs,         \* path -> file (or NoFile)
    git,        \* the repository rooted at the working directory
    pc,         \* the stage `run` is in
    idx,        \* the loop index inside the stage
    exitCode,   \* -1 while the process runs, then its exit status
    log,        \* the external operations of this process, in order
    runs,       \* number of processes started so far
    start,      \* the host as it was when this process started
    prevExit    \* exit status of the previous process (-1: there was none)

vars == <<npmForce, dir, umask, binLinked, onPath, installed, fs, git, pc, idx,
          exitCode, log, runs, start, prevExit>>

\* Number of times the program is started on the same host.
MaxRuns == 2

\* The number of files at their destinations before a run of Spec.
MaxBefore == 2

----------------------------------------------------------------------------
(* Static data of the program.                                             *)

requirements == <<
    [pkg |-> "csscomb",                   binary |-> TRUE],
    [pkg |-> "editorconfig-tools",        binary |-> TRUE],
    [pkg |-> "eslint",                    binary |-> TRUE],
    [pkg |-> "prettier",                  binary |-> TRUE],
    [pkg |-> "svgo",                      binary |-> TRUE],
    [pkg |-> "eslint-plugin-prettier",    binary |-> FALSE],
    [pkg |-> "eslint-config-airbnb-base", binary |-> FALSE],
    [pkg |-> "eslint-plugin-import",      binary |-> FALSE] >>

\* File modes are the integers Go passes to open(2): 420 is 0644, 493 is
\* 0755, 384 is 0600.

\* The embedded asset store: bytes and recorded mode of each template.  The
\* bytes of a template are one opaque chunk named after the template.
asset(name, mode) == [bytes |-> <<name>>, mode |-> mode]

mkPath(segs) == segs

files == <<
    [asset |-> asset("config/.csscomb.json", 420),
     dest |-> mkPath(<<".csscomb.json">>),  fromRoot |-> FALSE],
    [asset |-> asset("config/.eslintrc.js", 420),
     dest |-> mkPath(<<".eslintrc.js">>),   fromRoot |-> FALSE],
    [asset |-> asset("config/.editorconfig", 420),
     dest |-> mkPath(<<".editorconfig">>),  fromRoot |-> TRUE] >>

precommitHook ==
    [asset |-> asset("hooks/pre-commit", 493),
     dest |-> mkPath(<<".git", "hooks", "pre-commit">>), fromRoot |-> TRUE]

gitignore ==
    [asset |-> asset("config/.gitignore", 420),
     dest |-> mkPath(<<".gitignore">>), fromRoot |-> FALSE]

AllFiles == {files[i] : i \in 1..Len(files)} \cup {precommitHook, gitignore}

----------------------------------------------------------------------------
(* Paths.                                                                  *)

\* os.Getwd(): the directory the program is started in.
root == "/w"

\* filepath.Join of a base directory and path segments.
RECURSIVE Join(_, _)
Join(base, segs) ==
    IF segs = <<>> THEN base
    ELSE Join(base \o "/" \o Head(segs), Tail(segs))

\* Values of --dir after filepath.Abs: the working directory itself, a
\* directory below it, a directory outside it.
Dirs == {root, Join(root, <<"sub">>), "/x"}

UnderRoot(d) == d \in {root, Join(root, <<"sub">>)}

path(f, rt, wd) == IF f.fromRoot THEN Join(rt, f.dest) ELSE Join(wd, f.dest)

Paths(wd) == {path(f, root, wd) : f \in AllFiles}

----------------------------------------------------------------------------
(* Files.                                                                  *)

NoFile == [exists |-> FALSE, bytes |-> <<>>, mode |-> 0]
File(bytes, mode) == [exists |-> TRUE, bytes |-> bytes, mode |-> mode]
CustomFile == File(<<"custom">>, 384)

\* mode &^ mask on the nine permission bits.
RECURSIVE AndNot(_, _)
AndNot(mode, mask) ==
    IF mode = 0 THEN 0
    ELSE (IF mode % 2 = 1 /\ mask % 2 = 0 THEN 1 ELSE 0)
         + 2 * AndNot(mode \div 2, mask \div 2)

\* exists answering no for every path.
exists_Never(fsys, p) == FALSE

exists(fsys, p) == fsys[p].exists

\* isDir reporting no directory whatever is there.
isDir_Never(g, statOk) == FALSE

\* isDir(<root>/.git): os.Stat succeeded and found a directory.  A failed
\* os.Stat, whatever the reason, gives false.
isDir(g, statOk) == statOk /\ g.repo

\* WriteFile creating the file as os.Create does, with 0666 in place of perm.
WriteFile_DefaultPerm(fsys, p, bytes, perm, mask, io) ==
    LET m == IF fsys[p].exists THEN fsys[p].mode ELSE AndNot(438, mask)
    IN  IF io = "open" THEN fsys
        ELSE IF io = "short" THEN [fsys EXCEPT ![p] = File(<<>>, m)]
        ELSE [fsys EXCEPT ![p] = File(bytes, m)]

\* ioutil.WriteFile(p, bytes, perm): open(p, O_WRONLY|O_CREATE|O_TRUNC, perm),
\* write, close.  A new file gets perm &^ umask, an existing one is truncated
\* and keeps its mode.  io = "open": the open fails; io = "short": the open
\* succeeds and the write does not complete; io = "close": open and write
\* succeed, every byte is in the file, and the close fails: the file is
\* complete and the call returns the error of the close.
WriteFile(fsys, p, bytes, perm, mask, io) ==
    LET m == IF fsys[p].exists THEN fsys[p].mode ELSE AndNot(perm, mask)
    IN  IF io = "open" THEN fsys
        ELSE IF io = "short" THEN [fsys EXCEPT ![p] = File(<<>>, m)]
        ELSE [fsys EXCEPT ![p] = File(bytes, m)]

Ev(op, arg, ok) == [op |-> op, arg |-> arg, ok |-> ok]

\* copyFile going on to remove and write whatever the answer to the prompt.
copyFile_IgnoreAnswer(fsys, rt, pwd, file, mask, answer, io) ==
    LET p == path(file, rt, pwd)
        f == IF io = "ok" THEN File(file.asset.bytes, AndNot(file.asset.mode, mask))
             ELSE NoFile
    IN  [fs |-> [fsys EXCEPT ![p] = f],
         events |-> (IF exists(fsys, p) THEN <<Ev("prompt", p, answer)>> ELSE <<>>)
                    \o <<Ev("write", p, io = "ok")>>,
         err |-> io # "ok"]

\* copyFile opening an accepted destination for append instead of removing it.
copyFile_Append(fsys, rt, pwd, file, mask, answer, io) ==
    LET p == path(file, rt, pwd)
        m == IF exists(fsys, p) THEN fsys[p].mode ELSE AndNot(file.asset.mode, mask)
    IN  IF exists(fsys, p) /\ ~answer
          THEN [fs |-> fsys, events |-> <<Ev("prompt", p, FALSE)>>, err |-> FALSE]
        ELSE IF io # "ok"
          THEN [fs |-> fsys, events |-> <<Ev("write", p, FALSE)>>, err |-> TRUE]
        ELSE [fs |-> [fsys EXCEPT ![p] = File(fsys[p].bytes \o file.asset.bytes, m)],
              events |-> (IF exists(fsys, p)
                            THEN <<Ev("prompt", p, TRUE), Ev("remove", p, TRUE)>>
                            ELSE <<>>)
                         \o <<Ev("write", p, TRUE)>>,
              err |-> FALSE]

\* copyFile returning an error when the overwrite is declined.
copyFile_DeclineIsError(fsys, rt, pwd, file, mask, answer, io) ==
    LET p == path(file, rt, pwd)
        f == IF io = "ok" THEN File(file.asset.bytes, AndNot(file.asset.mode, mask))
             ELSE NoFile
    IN  IF exists(fsys, p) /\ ~answer
          THEN [fs |-> fsys, events |-> <<Ev("prompt", p, FALSE)>>, err |-> TRUE]
          ELSE [fs |-> [fsys EXCEPT ![p] = f],
                events |-> <<Ev("write", p, io = "ok")>>, err |-> io # "ok"]

\* copyFile(root, pwd, file) with the user's answer to the overwrite prompt
\* and the outcome of the file system calls
\* (io: "ok", "stat", "remove", "open", "short", "close").
\* copyFile removing the destination before it asks.
copyFile_RemoveBeforeAsk(fsys, rt, pwd, file, mask, answer, io) ==
    LET p       == path(file, rt, pwd)
        wrOk    == io \notin {"open", "short", "close"}
        removed == [fsys EXCEPT ![p] = NoFile]
        write(f, pre) ==
            [fs     |-> WriteFile(f, p, file.asset.bytes, file.asset.mode, mask, io),
             events |-> pre \o <<Ev("write", p, wrOk)>>,
             err    |-> ~wrOk]
    IN  IF io = "stat"
          THEN [fs |-> fsys, events |-> <<Ev("stat", p, FALSE)>>, err |-> TRUE]
        ELSE IF ~exists(fsys, p)
          THEN write(fsys, <<>>)
        ELSE IF io = "remove"
          THEN [fs |-> fsys, events |-> <<Ev("remove", p, FALSE)>>, err |-> TRUE]
        ELSE IF ~answer
          THEN [fs |-> removed,
                events |-> <<Ev("remove", p, TRUE), Ev("prompt", p, FALSE)>>,
                err |-> FALSE]
        ELSE write(removed, <<Ev("remove", p, TRUE), Ev("prompt", p, TRUE)>>)

copyFile(fsys, rt, pwd, file, mask, answer, io) ==
    LET p       == path(file, rt, pwd)
        wrOk    == io \notin {"open", "short", "close"}
        removed == [fsys EXCEPT ![p] = NoFile]
        write(f, pre) ==
            [fs     |-> WriteFile(f, p, file.asset.bytes, file.asset.mode, mask, io),
             events |-> pre \o <<Ev("write", p, wrOk)>>,
             err    |-> ~wrOk]
    IN  IF io = "stat"
          THEN [fs |-> fsys, events |-> <<Ev("stat", p, FALSE)>>, err |-> TRUE]
        ELSE IF ~exists(fsys, p)
          THEN write(fsys, <<>>)
        ELSE IF ~answer
          THEN [fs |-> fsys, events |-> <<Ev("prompt", p, FALSE)>>, err |-> FALSE]
        ELSE IF io = "remove"
          THEN [fs |-> fsys,
                events |-> <<Ev("prompt", p, TRUE), Ev("remove", p, FALSE)>>,
                err |-> TRUE]
        ELSE write(removed, <<Ev("prompt", p, TRUE), Ev("remove", p, TRUE)>>)

----------------------------------------------------------------------------
(* Requirements.                                                           *)

LookPath(name, pathSet) == name \in pathSet

\* install without the os.Exit(1) of line 193: the `return nil` after it is
\* reached.
install_NoExit(program, npmF, pathSet, cmdOk) ==
    IF (~npmF /\ LookPath("yarn", pathSet)) \/ LookPath("npm", pathSet)
      THEN [events |-> <<Ev("cmd", "npm install -g " \o program, cmdOk)>>,
            result |-> IF cmdOk THEN "nil" ELSE "err"]
      ELSE [events |-> <<Ev("lookpath", "npm", FALSE)>>, result |-> "nil"]

\* install resorting to npm when the yarn command fails.
install_FallbackOnFailure(program, npmF, pathSet, cmdOk) ==
    LET yarnProbe == IF npmF THEN <<>>
                     ELSE <<Ev("lookpath", "yarn", LookPath("yarn", pathSet))>>
        npmProbe  == <<Ev("lookpath", "npm", LookPath("npm", pathSet))>>
        res       == IF cmdOk THEN "nil" ELSE "err"
        viaNpm(pre) ==
            IF LookPath("npm", pathSet)
              THEN [events |-> pre \o npmProbe
                               \o <<Ev("cmd", "npm install -g " \o program, cmdOk)>>,
                    result |-> res]
              ELSE [events |-> pre \o npmProbe, result |-> "exit"]
    IN  IF ~npmF /\ LookPath("yarn", pathSet)
          THEN IF cmdOk
                 THEN [events |-> yarnProbe
                          \o <<Ev("cmd", "yarn global add " \o program, TRUE)>>,
                       result |-> "nil"]
                 ELSE viaNpm(yarnProbe
                          \o <<Ev("cmd", "yarn global add " \o program, FALSE)>>)
        ELSE viaNpm(yarnProbe)

\* install issuing a failed command a second time.
install_RetryOnce(program, npmF, pathSet, cmdOk) ==
    LET yarnProbe == IF npmF THEN <<>>
                     ELSE <<Ev("lookpath", "yarn", LookPath("yarn", pathSet))>>
        npmProbe  == <<Ev("lookpath", "npm", LookPath("npm", pathSet))>>
        res       == IF cmdOk THEN "nil" ELSE "err"
        run(c)    == IF cmdOk THEN <<Ev("cmd", c, TRUE)>>
                     ELSE <<Ev("cmd", c, FALSE), Ev("cmd", c, FALSE)>>
    IN  IF ~npmF /\ LookPath("yarn", pathSet)
          THEN [events |-> yarnProbe \o run("yarn global add " \o program),
                result |-> res]
        ELSE IF LookPath("npm", pathSet)
          THEN [events |-> yarnProbe \o npmProbe
                           \o run("npm install -g " \o program),
                result |-> res]
        ELSE [events |-> yarnProbe \o npmProbe, result |-> "exit"]

\* install looking for yarn whatever npmForce says.
install_IgnoreForce(program, npmF, pathSet, cmdOk) ==
    LET yarnProbe == <<Ev("lookpath", "yarn", LookPath("yarn", pathSet))>>
        npmProbe  == <<Ev("lookpath", "npm", LookPath("npm", pathSet))>>
        res       == IF cmdOk THEN "nil" ELSE "err"
    IN  IF LookPath("yarn", pathSet)
          THEN [events |-> yarnProbe
                           \o <<Ev("cmd", "yarn global add " \o program, cmdOk)>>,
                result |-> res]
        ELSE IF LookPath("npm", pathSet)
          THEN [events |-> yarnProbe \o npmProbe
                           \o <<Ev("cmd", "npm install -g " \o program, cmdOk)>>,
                result |-> res]
        ELSE [events |-> yarnProbe \o npmProbe, result |-> "exit"]

\* install(program, npmForce) with the outcome of the package manager
\* command.  result: "nil", "err", or "exit" for os.Exit(1).
install(program, npmF, pathSet, cmdOk) ==
    LET yarnProbe == IF npmF THEN <<>>
                     ELSE <<Ev("lookpath", "yarn", LookPath("yarn", pathSet))>>
        npmProbe  == <<Ev("lookpath", "npm", LookPath("npm", pathSet))>>
        res       == IF cmdOk THEN "nil" ELSE "err"
    IN  IF ~npmF /\ LookPath("yarn", pathSet)
          THEN [events |-> yarnProbe
                           \o <<Ev("cmd", "yarn global add " \o program, cmdOk)>>,
                result |-> res]
        ELSE IF LookPath("npm", pathSet)
          THEN [events |-> yarnProbe \o npmProbe
                           \o <<Ev("cmd", "npm install -g " \o program, cmdOk)>>,
                result |-> res]
        ELSE [events |-> yarnProbe \o npmProbe, result |-> "exit"]

\* ensureInstalled installing whether or not the executable is found.
ensureInstalled_NoProbe(r, npmF, pathSet, cmdOk) ==
    LET mgr == IF ~npmF /\ LookPath("yarn", pathSet) THEN "yarn global add "
               ELSE "npm install -g "
    IN  IF (~npmF /\ LookPath("yarn", pathSet)) \/ LookPath("npm", pathSet)
          THEN [events |-> <<Ev("cmd", mgr \o r.pkg, cmdOk)>>,
                result |-> IF cmdOk THEN "ok" ELSE "exit", done |-> cmdOk]
          ELSE [events |-> <<Ev("lookpath", "npm", FALSE)>>,
                result |-> "exit", done |-> FALSE]

\* ensureInstalled probing PATH for every requirement, packages included.
ensureInstalled_ProbeAll(r, npmF, pathSet, cmdOk) ==
    IF LookPath(r.pkg, pathSet)
      THEN [events |-> <<Ev("lookpath", r.pkg, TRUE)>>,
            result |-> "ok", done |-> FALSE]
      ELSE ensureInstalled_NoProbe(r, npmF, pathSet, cmdOk)

\* ensureInstalled(r, npm).  result: "ok", or "exit" for os.Exit(1).
ensureInstalled(r, npmF, pathSet, cmdOk) ==
    LET probe == <<Ev("lookpath", r.pkg, LookPath(r.pkg, pathSet))>>
        inst  == install(r.pkg, npmF, pathSet, cmdOk)
        out(pre) == [events |-> pre \o inst.events,
                     result |-> IF inst.result = "nil" THEN "ok" ELSE "exit",
                     done   |-> inst.result = "nil"]
    IN  IF r.binary
          THEN IF LookPath(r.pkg, pathSet)
                 THEN [events |-> probe, result |-> "ok", done |-> FALSE]
                 ELSE out(probe)
          ELSE out(<<>>)

----------------------------------------------------------------------------
(* The repository.                                                         *)

\* The state of version control at the root: repo says that <root>/.git is a
\* directory, linked that <root>/.git is a regular file naming a repository
\* kept elsewhere (a linked worktree, a submodule), for which isDir is false.
NoRepo == [repo |-> FALSE, linked |-> FALSE, index |-> {}, commits |-> <<>>]

\* What `git add -A` sees: the files below the working directory that are
\* not inside .git.
WorkTree(fsys, wd) ==
    {path(f, root, wd) : f \in {g \in AllFiles :
        /\ (g.fromRoot \/ UnderRoot(wd))
        /\ Head(g.dest) # ".git"
        /\ fsys[path(g, root, wd)].exists}}

\* initializeGitRepo going on to the commit after a failed `git add -A`.
initializeGitRepo_IgnoreAddError(g, fsys, wd, failAt) ==
    LET e1 == Ev("cmd", "git init", failAt # "init")
        e2 == Ev("cmd", "git add -A", failAt # "add")
        e3 == Ev("cmd", "git commit -am", failAt # "commit")
        g1 == IF g.linked THEN g ELSE [g EXCEPT !.repo = TRUE]
        g2 == IF failAt = "add" THEN g1 ELSE [g1 EXCEPT !.index = WorkTree(fsys, wd)]
        g3 == [g2 EXCEPT !.commits = Append(g2.commits, g2.index)]
    IN  IF failAt = "init" THEN [git |-> g, events |-> <<e1>>, err |-> TRUE]
        ELSE IF failAt = "commit"
          THEN [git |-> g2, events |-> <<e1, e2, e3>>, err |-> TRUE]
        ELSE [git |-> g3, events |-> <<e1, e2, e3>>, err |-> FALSE]

\* initializeGitRepo() where failAt names the command that fails
\* ("none", "init", "add", "commit").  `git init` creates <root>/.git unless
\* it is a file naming a repository, which it initializes again in place.
initializeGitRepo(g, fsys, wd, failAt) ==
    LET e1 == Ev("cmd", "git init", failAt # "init")
        e2 == Ev("cmd", "git add -A", failAt # "add")
        e3 == Ev("cmd", "git commit -am", failAt # "commit")
        g1 == IF g.linked THEN g ELSE [g EXCEPT !.repo = TRUE]
        g2 == [g1 EXCEPT !.index = WorkTree(fsys, wd)]
        g3 == [g2 EXCEPT !.commits = Append(g2.commits, g2.index)]
    IN  IF failAt = "init" THEN [git |-> g, events |-> <<e1>>, err |-> TRUE]
        ELSE IF failAt = "add" THEN [git |-> g1, events |-> <<e1, e2>>, err |-> TRUE]
        ELSE IF failAt = "commit"
          THEN [git |-> g2, events |-> <<e1, e2, e3>>, err |-> TRUE]
        ELSE [git |-> g3, events |-> <<e1, e2, e3>>, err |-> FALSE]

----------------------------------------------------------------------------
(* The run.                                                                *)

Stages == <<"InstallRequirements", "ResolveDirs", "EnsureGitignore",
            "DeployConfigAssets", "EnsureRepoBootstrapped",
            "InstallPrecommitHook", "Done">>

StageRank(s) == CHOOSE i \in 1..Len(Stages) : Stages[i] = s

\* `run` with the hook installed before the repository is looked at.
NextStage_HookFirst(s) ==
    IF s = "DeployConfigAssets" THEN "InstallPrecommitHook"
    ELSE IF s = "InstallPrecommitHook" THEN "EnsureRepoBootstrapped"
    ELSE IF s = "EnsureRepoBootstrapped" THEN "Done"
    ELSE Stages[StageRank(s) + 1]

\* `run` with the repository looked at before .gitignore and the assets.
NextStage_BootstrapFirst(s) ==
    IF s = "ResolveDirs" THEN "EnsureRepoBootstrapped"
    ELSE IF s = "EnsureRepoBootstrapped" THEN "EnsureGitignore"
    ELSE IF s = "DeployConfigAssets" THEN "InstallPrecommitHook"
    ELSE Stages[StageRank(s) + 1]

\* `run` without its lines 123-128: the assets loop is followed by the hook.
NextStage_NoBootstrap(s) ==
    IF s = "DeployConfigAssets" THEN "InstallPrecommitHook"
    ELSE Stages[StageRank(s) + 1]

\* The statement order of `run`: the stage entered when stage s completes.
NextStage(s) == Stages[StageRank(s) + 1]

\* The events of one call, marked with the stage and loop index that made it.
Tag(evs) ==
    [i \in 1..Len(evs) |->
        [stage |-> pc, item |-> idx,
         op |-> evs[i].op, arg |-> evs[i].arg, ok |-> evs[i].ok]]

Host == <<npmForce, dir, umask, binLinked>>
History == <<runs, start, prevExit>>

\* The host as the starting process finds it.
Snapshot == [fs |-> fs, git |-> git, onPath |-> onPath, installed |-> installed]

\* The failure handed back to main, which drops what app.Run returns.
Exit1_Return ==
    /\ pc' = "Fatal"
    /\ exitCode' = 0
    /\ idx' = idx

\* os.Exit(1)
Exit1 ==
    /\ pc' = "Fatal"
    /\ exitCode' = 1
    /\ idx' = idx

\* The stage is complete: go on with the next one.
Advance ==
    /\ pc' = NextStage(pc)
    /\ idx' = 1
    /\ exitCode' = IF NextStage(pc) = "Done" THEN 0 ELSE exitCode

IOs == {"ok", "stat", "remove", "open", "short", "close"}

Bins == {requirements[i].pkg : i \in {j \in 1..Len(requirements) : requirements[j].binary}}

\* Some of the executables, and a name on PATH that is also the name of a
\* package requirement.
SomeNames == {"csscomb", "eslint", "svgo", "eslint-plugin-import"}

\* The sets of names on PATH the program is started with: some of the
\* executables with each choice of package managers, and every executable
\* with both package managers or with none.
PathChoices ==
    {SomeNames \cup m : m \in SUBSET {"yarn", "npm"}}
        \cup {Bins, Bins \cup {"yarn", "npm"}}

\* The umasks the program is started with: 022, 077.
Umasks == {18, 63}

\* A repository that was there before the program ran, with earlier commits.
ExistingRepo ==
    [repo |-> TRUE, linked |-> FALSE, index |-> {}, commits |-> <<{}, {}>>]

\* The root is a linked worktree of a repository with earlier commits.
LinkedRepo ==
    [repo |-> FALSE, linked |-> TRUE, index |-> {}, commits |-> <<{}, {}>>]

\* The first start of the program on a host.
Started ==
    /\ installed = {}
    /\ git \in {NoRepo, ExistingRepo, LinkedRepo}
    /\ fs \in [Paths(dir) -> {NoFile, CustomFile}]
    /\ fs[path(precommitHook, root, dir)].exists => git.repo
    /\ pc = "InstallRequirements"
    /\ idx = 1
    /\ exitCode = -1
    /\ log = <<>>
    /\ runs = 1
    /\ start = Snapshot
    /\ prevExit = -1

\* One run on a broad choice of hosts; the second umask is tried with the
\* root as target directory, the mode of a new file not depending on where
\* the file goes; the linked worktree is tried with the root as target
\* directory, the hook stage not depending on it; at most MaxBefore of the
\* five files are there beforehand.
Init ==
    /\ npmForce \in BOOLEAN
    /\ dir \in Dirs
    /\ umask \in (IF dir = root THEN Umasks ELSE {18})
    /\ binLinked = TRUE
    /\ onPath \in PathChoices
    /\ Started
    /\ Cardinality({p \in Paths(dir) : fs[p].exists}) <= MaxBefore
    /\ git.linked => dir = root /\ umask = 18

\* run, lines 89-91: one iteration of the requirements loop.  A successful
\* global install of an executable makes it resolvable when the global bin
\* directory is on PATH.
EnsureInstalled ==
    /\ pc = "InstallRequirements"
    /\ \E cmdOk \in BOOLEAN :
         LET r   == requirements[idx]
             res == ensureInstalled(r, npmForce, onPath, cmdOk)
         IN  /\ log' = log \o Tag(res.events)
             /\ installed' = IF res.done THEN installed \cup {r.pkg} ELSE installed
             /\ onPath' = IF res.done /\ r.binary /\ binLinked
                             THEN onPath \cup {r.pkg} ELSE onPath
             /\ IF res.result = "exit" THEN Exit1
                ELSE IF idx < Len(requirements)
                  THEN /\ idx' = idx + 1
                       /\ UNCHANGED <<pc, exitCode>>
                ELSE Advance
    /\ UNCHANGED <<Host, History, fs, git>>

\* run, lines 93-104: os.Getwd and filepath.Abs.
ResolveDirs ==
    /\ pc = "ResolveDirs"
    /\ \E ok \in BOOLEAN :
         IF ok THEN Advance /\ UNCHANGED log
         ELSE Exit1 /\ log' = log \o Tag(<<Ev("getwd", root, FALSE)>>)
    /\ UNCHANGED <<Host, History, onPath, installed, fs, git>>

\* The part of `run` around one copyFile call whose I/O outcome is one of ios.
DeployIO(f, last, ios) ==
    \E answer \in BOOLEAN, io \in ios :
        LET res == copyFile(fs, root, dir, f, umask, answer, io)
        IN  /\ fs' = res.fs
            /\ log' = log \o Tag(res.events)
            /\ IF res.err THEN Exit1
               ELSE IF last THEN Advance
               ELSE /\ idx' = idx + 1
                    /\ UNCHANGED <<pc, exitCode>>

Deploy(f, last) == DeployIO(f, last, IOs)

\* run, lines 106-112.  statOk is the outcome of the os.Stat of exists():
\* when it fails for another reason than absence exists() is false and
\* copyFile is called whatever is there.  copyFile makes its own os.Stat,
\* with its own outcome; the events logged are those of copyFile.
EnsureGitignore ==
    /\ pc = "EnsureGitignore"
    /\ \E statOk \in BOOLEAN :
         IF ~(statOk /\ exists(fs, Join(dir, <<".gitignore">>)))
           THEN Deploy(gitignore, TRUE)
           ELSE Advance /\ UNCHANGED <<fs, log>>
    /\ UNCHANGED <<Host, History, onPath, installed, git>>

\* run, lines 114-121: one iteration of the assets loop.
DeployConfigAssets ==
    /\ pc = "DeployConfigAssets"
    /\ Deploy(files[idx], idx = Len(files))
    /\ UNCHANGED <<Host, History, onPath, installed, git>>

\* run, lines 123-128.  statOk is the outcome of the os.Stat of isDir: when
\* it fails for another reason than absence, the repository is initialized
\* whatever is at <root>/.git.
EnsureRepoBootstrapped ==
    /\ pc = "EnsureRepoBootstrapped"
    /\ \E statOk \in BOOLEAN :
         LET probe == IF statOk THEN <<>>
                      ELSE <<Ev("stat", Join(root, <<".git">>), FALSE)>>
         IN  IF ~isDir(git, statOk)
               THEN \E failAt \in {"none", "init", "add", "commit"} :
                      LET res == initializeGitRepo(git, fs, dir, failAt)
                      IN  /\ git' = res.git
                          /\ log' = log \o Tag(probe \o res.events)
                          /\ IF res.err THEN Exit1 ELSE Advance
               ELSE Advance /\ UNCHANGED <<git, log>>
    /\ UNCHANGED <<Host, History, onPath, installed, fs>>

\* run, lines 130-137.  Below a .git that is a regular file every os.Stat
\* fails with ENOTDIR, which os.IsNotExist does not take for absence.
InstallPrecommitHook ==
    /\ pc = "InstallPrecommitHook"
    /\ DeployIO(precommitHook, TRUE, IF git.linked THEN {"stat"} ELSE IOs)
    /\ UNCHANGED <<Host, History, onPath, installed, git>>

\* main: the program is started again on the same host with the same flags.
Restart ==
    /\ pc \in {"Done", "Fatal"}
    /\ runs < MaxRuns
    /\ pc' = "InstallRequirements"
    /\ idx' = 1
    /\ exitCode' = -1
    /\ log' = <<>>
    /\ runs' = runs + 1
    /\ start' = Snapshot
    /\ prevExit' = exitCode
    /\ UNCHANGED <<Host, onPath, installed, fs, git>>

Next ==
    \/ EnsureInstalled
    \/ ResolveDirs
    \/ EnsureGitignore
    \/ DeployConfigAssets
    \/ EnsureRepoBootstrapped
    \/ InstallPrecommitHook

Spec == Init /\ [][Next]_vars

\* The program started up to MaxRuns times in a row on a host where yarn, npm
\* and some of the executables are installed, the target directory is a
\* directory below the root, the root is not a linked worktree and at most
\* one of the files is there beforehand.
InitTwice ==
    /\ npmForce = FALSE
    /\ dir = "/w/sub"
    /\ umask = 18
    /\ binLinked \in BOOLEAN
    /\ onPath = SomeNames \cup {"yarn", "npm"}
    /\ Started
    /\ ~git.linked
    /\ Cardinality({p \in Paths(dir) : fs[p].exists}) <= 1

NextTwice == Next \/ Restart

SpecTwice == InitTwice /\ [][NextTwice]_vars

\* One run in which every call the program makes returns: a command, a
\* prompt or a file system call may fail but does not hang, so the
\* sequential program always takes its next step.  PATH holds none of the
\* executables, some of them or all of them.
InitLive ==
    /\ npmForce \in BOOLEAN
    /\ dir \in Dirs
    /\ umask = 18
    /\ binLinked = TRUE
    /\ onPath \in {{"yarn", "npm"}, SomeNames \cup {"npm"}, Bins}
    /\ Started

SpecLive == InitLive /\ [][Next]_vars /\ WF_vars(Next)

----------------------------------------------------------------------------
(* Vocabulary of the properties.                                           *)

Terminated == pc \in {"Done", "Fatal"}

Logged(op, arg, ok) ==
    \E i \in 1..Len(log) : log[i].op = op /\ log[i].arg = arg /\ log[i].ok = ok

NoPrompts == \A i \in 1..Len(log) : log[i].op # "prompt"

GitCmds == {"git init", "git add -A", "git commit -am"}

\* Every command, file system call and directory lookup made so far succeeded.
AllOpsOk ==
    \A i \in 1..Len(log) :
        log[i].op \in {"cmd", "stat", "remove", "write", "getwd"} => log[i].ok

\* install finds a package manager it may use.
ManagerFound(pathSet) ==
    (~npmForce /\ "yarn" \in pathSet) \/ "npm" \in pathSet

GitignorePath == path(gitignore, root, dir)
HookPath == path(precommitHook, root, dir)
ConfigPaths == {path(files[i], root, dir) : i \in 1..Len(files)}
EslintrcPath == path(files[2], root, dir)

----------------------------------------------------------------------------
(* Scenario B.                                                             *)

ScenarioB ==
    /\ Bins \subseteq start.onPath
    /\ ~start.fs[GitignorePath].exists
    /\ ~start.git.repo
    /\ ~start.git.linked

ScenarioB_Result ==
    /\ pc = "Done"
    /\ exitCode = 0
    /\ fs[GitignorePath].exists
    /\ \A p \in ConfigPaths : fs[p].exists
    /\ git.repo
    /\ Len(git.commits) = 1
    /\ fs[HookPath].exists

\* C1 as stated: started with every executable requirement on PATH, no
\* .gitignore and no .git, the run shows no overwrite prompt and, unless an
\* operation fails, ends at Done with exit 0, .gitignore, the three config
\* files, a repository of exactly one commit and the hook in place.
C1_ScenarioB_AsStated ==
    ScenarioB =>
        /\ NoPrompts
        /\ (Terminated /\ AllOpsOk => ScenarioB_Result)

\* C1 amended: the same, for a start where moreover a package manager that
\* install may use is on PATH (the three package requirements are installed
\* on every run) and none of the three config files is at its destination.
C1_ScenarioB ==
    (/\ ScenarioB
     /\ ManagerFound(start.onPath)
     /\ \A p \in ConfigPaths : ~start.fs[p].exists)
    =>  /\ NoPrompts
        /\ (Terminated /\ AllOpsOk => ScenarioB_Result)

C1_Witness ==
    /\ ScenarioB
    /\ ManagerFound(start.onPath)
    /\ \A p \in ConfigPaths : ~start.fs[p].exists
    /\ ScenarioB_Result
    /\ NoPrompts

----------------------------------------------------------------------------
(* Scenario A.                                                             *)

ScenarioA ==
    /\ \A p \in Paths(dir) : ~start.fs[p].exists
    /\ ~start.git.repo
    /\ "yarn" \notin start.onPath
    /\ "npm" \notin start.onPath

\* C2: started on an empty directory with neither yarn nor npm on PATH, the
\* run never gets past the requirements, exits non-zero when it ends, and
\* has written no file and issued no command: the files and the repository
\* are as they were.
C2_ScenarioA ==
    ScenarioA =>
        /\ pc \in {"InstallRequirements", "Fatal"}
        /\ (Terminated => exitCode = 1)
        /\ fs = start.fs
        /\ git = start.git
        /\ \A i \in 1..Len(log) : log[i].op \notin {"write", "remove", "cmd"}

C2_Witness == ScenarioA /\ pc = "Fatal" /\ exitCode = 1

----------------------------------------------------------------------------
(* Scenario C.                                                             *)

ScenarioC ==
    /\ start.fs[EslintrcPath] = CustomFile
    /\ Logged("prompt", EslintrcPath, FALSE)

\* C3: when .eslintrc.js is there with custom content and the overwrite is
\* declined, the file keeps its original content, the declined copy does not
\* end the run, and the run ends at Done with exit 0 unless an operation
\* fails.
C3_ScenarioC ==
    ScenarioC =>
        /\ fs[EslintrcPath] = start.fs[EslintrcPath]
        /\ (log[Len(log)].op = "prompt" => pc # "Fatal")
        /\ (Terminated /\ AllOpsOk => pc = "Done" /\ exitCode = 0)

C3_Witness == ScenarioC /\ pc = "Done" /\ fs[EslintrcPath] = CustomFile

----------------------------------------------------------------------------
(* copyFile.  Every destination is copied to at most once in a run, so the  *)
(* log tells which branch of copyFile a destination went through, and      *)
(* start.fs what it held before.                                           *)

\* C4 as stated: a copy to a destination that did not exist leaves there a
\* file with the asset's bytes and exactly the asset's recorded mode, and shows
\* no prompt.
C4_CopyToNew_AsStated ==
    \A f \in AllFiles :
        LET p == path(f, root, dir)
        IN  (~start.fs[p].exists /\ Logged("write", p, TRUE)) =>
                /\ fs[p] = File(f.asset.bytes, f.asset.mode)
                /\ ~Logged("prompt", p, TRUE)
                /\ ~Logged("prompt", p, FALSE)

\* C4 amended: a copy to a destination that did not exist leaves there a file
\* with the asset's bytes and the asset's recorded mode less the bits of the
\* process umask, and shows no prompt.
C4_CopyToNew ==
    \A f \in AllFiles :
        LET p == path(f, root, dir)
        IN  (~start.fs[p].exists /\ Logged("write", p, TRUE)) =>
                /\ fs[p] = File(f.asset.bytes, AndNot(f.asset.mode, umask))
                /\ ~Logged("prompt", p, TRUE)
                /\ ~Logged("prompt", p, FALSE)

C4_Witness ==
    /\ umask = 63
    /\ \A f \in AllFiles :
          /\ ~start.fs[path(f, root, dir)].exists
          /\ Logged("write", path(f, root, dir), TRUE)
    /\ fs[HookPath] = File(<<"hooks/pre-commit">>, 448)

\* C5: a copy to an existing destination with the overwrite declined leaves
\* the file as it was, with no remove and no write, and returns nil: the run
\* is not ended by it.
C5_CopyDeclined ==
    \A f \in AllFiles :
        LET p == path(f, root, dir)
        IN  Logged("prompt", p, FALSE) =>
                /\ start.fs[p].exists
                /\ fs[p] = start.fs[p]
                /\ \A i \in 1..Len(log) :
                      log[i].arg = p => log[i].op \notin {"remove", "write"}
                /\ (log[Len(log)].op = "prompt" /\ log[Len(log)].arg = p
                     => pc # "Fatal")

C5_Witness ==
    /\ Logged("prompt", HookPath, FALSE)
    /\ Logged("prompt", path(files[1], root, dir), FALSE)
    /\ fs[HookPath] = CustomFile
    /\ pc = "Done"

\* C6: a copy to an existing destination with the overwrite accepted, once
\* written, leaves there exactly the asset's bytes.
C6_CopyAccepted ==
    \A f \in AllFiles :
        LET p == path(f, root, dir)
        IN  (Logged("prompt", p, TRUE) /\ Logged("write", p, TRUE)) =>
                /\ start.fs[p].exists
                /\ fs[p].exists
                /\ fs[p].bytes = f.asset.bytes

C6_Witness ==
    \E f \in AllFiles :
        LET p == path(f, root, dir)
        IN  /\ start.fs[p] = CustomFile
            /\ Logged("prompt", p, TRUE)
            /\ Logged("remove", p, TRUE)
            /\ Logged("write", p, TRUE)
            /\ fs[p].bytes = f.asset.bytes

----------------------------------------------------------------------------
(* ensureInstalled.                                                        *)

\* The events of the i-th iteration of the requirements loop.
ReqEvents(i) ==
    {k \in 1..Len(log) : log[k].stage = "InstallRequirements" /\ log[k].item = i}

InstallCmds(pkg) == {"yarn global add " \o pkg, "npm install -g " \o pkg}

\* The i-th iteration of the requirements loop has been run.
Processed(i) ==
    IF pc = "InstallRequirements" THEN idx > i
    ELSE IF pc = "Fatal" /\ log[Len(log)].stage = "InstallRequirements" THEN idx >= i
    ELSE TRUE

\* C7: for an executable requirement that is on PATH when the program
\* starts, all its iteration does is the lookup of its own name: no lookup of
\* yarn or npm and no command, with --npm and without.
C7_NoInstallWhenOnPath ==
    \A i \in 1..Len(requirements) :
        (requirements[i].binary /\ requirements[i].pkg \in start.onPath) =>
            \A k \in ReqEvents(i) :
                log[k].op = "lookpath" /\ log[k].arg = requirements[i].pkg

C7_Witness ==
    /\ npmForce
    /\ start.onPath = SomeNames \cup {"npm"}
    /\ pc = "ResolveDirs"
    /\ ReqEvents(3) # {}
    /\ Logged("cmd", "npm install -g prettier", TRUE)

\* C8: for a package requirement, whether or not an earlier run installed
\* it and whether or not its name is on PATH, its iteration calls install:
\* the install command for it is issued, or install finds no package manager
\* and exits.
C8_PackageAlwaysInstalled ==
    \A i \in 1..Len(requirements) :
        (~requirements[i].binary /\ Processed(i)) =>
            \E k \in ReqEvents(i) :
                \/ log[k].op = "cmd" /\ log[k].arg \in InstallCmds(requirements[i].pkg)
                \/ log[k].op = "lookpath" /\ log[k].arg = "npm" /\ ~log[k].ok
                   /\ pc = "Fatal"

C8_Witness ==
    /\ runs = 2
    /\ "eslint-plugin-import" \in start.installed
    /\ "eslint-plugin-import" \in start.onPath
    /\ Logged("cmd", "yarn global add eslint-plugin-import", TRUE)

----------------------------------------------------------------------------
(* The repository bootstrap, run after run.                                *)

\* C9: a run that starts without .git and gets its commit done leaves a
\* repository of exactly one commit, holding the files then present below the
\* working directory; a run that starts with .git there issues no git
\* command and leaves the repository, its commits included, as it was.
C9_BootstrapOnce ==
    /\ (~start.git.repo /\ Logged("cmd", "git commit -am", TRUE)) =>
            /\ git.repo
            /\ git.commits = <<WorkTree(fs, dir)>>
    /\ start.git.repo =>
            /\ git = start.git
            /\ \A k \in 1..Len(log) : log[k].arg \notin GitCmds

C9_Witness ==
    /\ runs = 2
    /\ prevExit = 0
    /\ start.git.repo
    /\ Len(start.git.commits) = 1
    /\ start.git.commits[1] = WorkTree(start.fs, dir)
    /\ Cardinality(start.git.commits[1]) = 4
    /\ pc = "Done"
    /\ git = start.git

----------------------------------------------------------------------------
(* The order of the run.                                                   *)

\* The order of the stages, with the lookup of the two directories that
\* `run` does between the requirements and .gitignore.
StageOrder == <<"InstallRequirements", "ResolveDirs", "EnsureGitignore",
                "DeployConfigAssets", "EnsureRepoBootstrapped",
                "InstallPrecommitHook", "Done">>

OrderOf(s) == CHOOSE i \in 1..Len(StageOrder) : StageOrder[i] = s

LoopLen(st) ==
    IF st = "InstallRequirements" THEN Len(requirements)
    ELSE IF st = "DeployConfigAssets" THEN Len(files)
    ELSE 1

\* Event e2 may come right after event e1: it belongs to the same item, to
\* the next item of the same loop, or to the first item of a later stage
\* when e1 belongs to the last item of its own; the assets loop, which logs
\* for each of its items, is not jumped over.
Follows(e1, e2) ==
    \/ e2.stage = e1.stage /\ e2.item \in {e1.item, e1.item + 1}
    \/ /\ OrderOf(e1.stage) < OrderOf(e2.stage)
       /\ e1.item = LoopLen(e1.stage)
       /\ e2.item = 1
       /\ ~(OrderOf(e1.stage) < OrderOf("DeployConfigAssets")
            /\ OrderOf("DeployConfigAssets") < OrderOf(e2.stage))

\* An event of item i of a loop is about the i-th requirement or file.
About(e) ==
    /\ e.item \in 1..LoopLen(e.stage)
    /\ e.stage = "InstallRequirements" =>
          e.arg \in {requirements[e.item].pkg, "yarn", "npm"}
                    \cup InstallCmds(requirements[e.item].pkg)
    /\ e.stage = "DeployConfigAssets" => e.arg = path(files[e.item], root, dir)
    /\ e.stage = "EnsureGitignore" => e.arg = GitignorePath
    /\ e.stage = "EnsureRepoBootstrapped" =>
          e.arg \in GitCmds \cup {Join(root, <<".git">>)}
    /\ e.stage = "InstallPrecommitHook" => e.arg = HookPath

\* The log starts with the first requirement, goes through the stages in
\* order and through the items of a loop in order, and the run is at or
\* past the place of the last event.
LogInOrder ==
    /\ log # <<>> => log[1].stage = "InstallRequirements" /\ log[1].item = 1
    /\ \A k \in 1..Len(log) :
          /\ About(log[k])
          /\ k > 1 => Follows(log[k - 1], log[k])
    /\ (log # <<>> /\ pc # "Fatal") =>
          \/ OrderOf(log[Len(log)].stage) < OrderOf(pc)
          \/ log[Len(log)].stage = pc /\ log[Len(log)].item < idx

\* A step of the run: the next item of the loop, the next stage once the
\* stage is through, or the exit.
RunStep ==
    \/ pc' = "Fatal" /\ pc # "Done"
    \/ /\ pc' = pc
       /\ idx' = idx + 1
       /\ \/ pc = "InstallRequirements" /\ idx < Len(requirements)
          \/ pc = "DeployConfigAssets" /\ idx < Len(files)
    \/ /\ idx' = 1
       /\ pc # "Done"
       /\ pc' = StageOrder[OrderOf(pc) + 1]
       /\ pc = "InstallRequirements" => idx = Len(requirements)
       /\ pc = "DeployConfigAssets" => idx = Len(files)

\* C10: the run starts with the requirements, every step goes to the next
\* item of a loop in declaration order, to the next stage in the order
\* InstallRequirements, EnsureGitignore, DeployConfigAssets,
\* EnsureRepoBootstrapped, InstallPrecommitHook, Done, or to the exit; and
\* nothing of a later stage or item is done before the earlier ones are
\* through.
C10_StageOrder ==
    /\ pc = "InstallRequirements" /\ idx = 1
    /\ []LogInOrder
    /\ [][RunStep]_vars

C10_Witness ==
    /\ pc = "Done"
    /\ Logged("write", GitignorePath, TRUE)
    /\ Logged("cmd", "git commit -am", TRUE)
    /\ Logged("write", HookPath, TRUE)
    /\ Logged("cmd", "npm install -g prettier", TRUE)

----------------------------------------------------------------------------
(* Failures.                                                               *)

\* The operations whose failure the program does not go on from: a command,
\* a file system call, the working directory lookup, and the lookup of npm,
\* which install makes last.
Failure(e) ==
    \/ e.op \in {"cmd", "stat", "remove", "write", "getwd"} /\ ~e.ok
    \/ e.op = "lookpath" /\ e.arg = "npm" /\ ~e.ok

\* C11: a failed operation (no package manager found, a failed install, stat,
\* remove, write, init, stage-all or commit, a failed directory lookup) is the
\* last thing the run does and the process ends with exit code 1; a declined
\* overwrite is not a failure; the process ends with exit code 0 exactly
\* when the run is Done, and only a failure makes it end otherwise.
C11_FailureHalts ==
    /\ \A k \in 1..Len(log) :
          /\ Failure(log[k]) => k = Len(log) /\ pc = "Fatal" /\ exitCode = 1
          /\ (log[k].op = "prompt" /\ ~log[k].ok) => ~Failure(log[k])
    /\ exitCode = 0 <=> pc = "Done"
    /\ exitCode = 1 <=> pc = "Fatal"
    /\ pc = "Fatal" => log # <<>> /\ Failure(log[Len(log)])
    /\ exitCode \in {-1, 0, 1}

C11_Witness ==
    /\ pc = "Fatal"
    /\ exitCode = 1
    /\ Logged("prompt", path(files[1], root, dir), FALSE)
    /\ Logged("write", EslintrcPath, FALSE)
    /\ log[Len(log)].arg = EslintrcPath

----------------------------------------------------------------------------
(* The choice of the package manager.                                      *)

\* What install did for requirement i, in order: the lookups of package
\* managers and the command, without the outcome of the command.
InstallCall(i) ==
    LET evs == SelectSeq(log, LAMBDA e :
                   /\ e.stage = "InstallRequirements"
                   /\ e.item = i
                   /\ e.arg # requirements[i].pkg)
    IN  [k \in 1..Len(evs) |-> <<evs[k].op, evs[k].arg, evs[k].op = "cmd" \/ evs[k].ok>>]

\* C12: whenever install is called for a requirement: with force-fallback
\* off and yarn on the search path it looks up yarn and issues
\* `yarn global add <pkg>`; with force-fallback on or yarn not found, and npm
\* on the search path, it issues `npm install -g <pkg>`, and with
\* force-fallback on yarn is neither looked up nor invoked; with neither
\* usable manager found it issues no command and the process ends with a
\* non-zero exit code.
C12_ManagerResolution ==
    \A i \in 1..Len(requirements) :
        LET pkg   == requirements[i].pkg
            P     == start.onPath
            yarnP == IF npmForce THEN <<>>
                     ELSE <<<<"lookpath", "yarn", "yarn" \in P>>>>
        IN  InstallCall(i) # <<>> =>
              IF ~npmForce /\ "yarn" \in P
                THEN InstallCall(i) =
                       yarnP \o <<<<"cmd", "yarn global add " \o pkg, TRUE>>>>
              ELSE IF "npm" \in P
                THEN InstallCall(i) =
                       yarnP \o <<<<"lookpath", "npm", TRUE>>,
                                  <<"cmd", "npm install -g " \o pkg, TRUE>>>>
              ELSE /\ InstallCall(i) = yarnP \o <<<<"lookpath", "npm", FALSE>>>>
                   /\ pc = "Fatal"
                   /\ exitCode = 1
                   /\ log[Len(log)].item = i
                   /\ \A k \in 1..Len(log) : log[k].op # "cmd"

C12_Witness ==
    /\ npmForce
    /\ {"yarn", "npm"} \subseteq start.onPath
    /\ pc = "Done"
    /\ InstallCall(4) = <<<<"lookpath", "npm", TRUE>>,
                          <<"cmd", "npm install -g prettier", TRUE>>>>

----------------------------------------------------------------------------
(* An existing .gitignore.                                                 *)

\* C13: in a run started with a .gitignore in the target directory, the
\* file keeps its content (and mode), no overwrite prompt is shown for it,
\* and it is neither removed nor written.
C13_GitignoreKept ==
    start.fs[GitignorePath].exists =>
        /\ fs[GitignorePath] = start.fs[GitignorePath]
        /\ \A k \in 1..Len(log) :
              log[k].arg = GitignorePath => log[k].op = "stat" /\ ~log[k].ok

C13_Witness ==
    /\ start.fs[GitignorePath] = CustomFile
    /\ fs[GitignorePath] = CustomFile
    /\ pc = "Done"
    /\ \E p \in ConfigPaths : Logged("write", p, TRUE)

----------------------------------------------------------------------------
(* The repository bootstrap.                                               *)

\* The version-control commands of the run, in the order they were issued.
GitLog == SelectSeq(log, LAMBDA e : e.op = "cmd" /\ e.arg \in GitCmds)

BootstrapOrder == <<"git init", "git add -A", "git commit -am">>

\* C14: in a run started without a .git directory under the root, the
\* version-control commands issued are init, stage-all, commit in this
\* order, each only after the one before succeeded, and all three once the
\* bootstrap stage is passed; when one of them fails the process ends with a
\* non-zero exit code, no later command is issued, the hook is neither
\* prompted for nor written, and what the earlier commands did stays: the
\* repository of a successful init and the index of a successful stage-all.
C14_BootstrapSequence ==
    ~start.git.repo =>
        /\ Len(GitLog) <= 3
        /\ \A k \in 1..Len(GitLog) :
              /\ GitLog[k].arg = BootstrapOrder[k]
              /\ GitLog[k].stage = "EnsureRepoBootstrapped"
              /\ k < Len(GitLog) => GitLog[k].ok
        /\ pc \in {"InstallPrecommitHook", "Done"} =>
              Len(GitLog) = 3 /\ GitLog[3].ok
        /\ (GitLog # <<>> /\ ~GitLog[Len(GitLog)].ok) =>
              /\ pc = "Fatal"
              /\ exitCode = 1
              /\ log[Len(log)] = GitLog[Len(GitLog)]
              /\ fs[HookPath] = start.fs[HookPath]
              /\ \A k \in 1..Len(log) : log[k].arg # HookPath
        /\ git.linked = start.git.linked
        /\ git.repo = (~git.linked /\ Logged("cmd", "git init", TRUE))
        /\ git.index = IF Logged("cmd", "git add -A", TRUE)
                         THEN WorkTree(fs, dir) ELSE start.git.index
        /\ git.commits = IF Logged("cmd", "git commit -am", TRUE)
                           THEN Append(start.git.commits, WorkTree(fs, dir))
                           ELSE start.git.commits

C14_Witness ==
    /\ ~start.git.repo /\ ~start.git.linked
    /\ Logged("cmd", "git init", TRUE)
    /\ Logged("cmd", "git add -A", TRUE)
    /\ Logged("cmd", "git commit -am", FALSE)
    /\ git.repo
    /\ git.index # {}
    /\ pc = "Fatal"

----------------------------------------------------------------------------
(* The repository at the hook stage.                                       *)

\* C15: whenever the run is at the InstallPrecommitHook stage, <root>/.git is
\* a directory, and the destination of the hook is
\* <root>/.git/hooks/pre-commit whatever the target directory is.
C15_RepoAtHookStage ==
    pc = "InstallPrecommitHook" =>
        /\ isDir(git, TRUE)
        /\ HookPath = Join(root, <<".git", "hooks", "pre-commit">>)

----------------------------------------------------------------------------
(* One install command per requirement.                                    *)

\* The install commands issued for requirement i.
InstallCmdEvents(i) == {k \in ReqEvents(i) : log[k].op = "cmd"}

\* C16: for each requirement at most one package manager command is issued
\* in a run, and it is an install of that requirement; a failed install
\* command is the last operation of the run, which ends with exit code 1: it
\* is not issued again, and after a failed yarn command no npm command is
\* issued for the requirement although npm is on the search path.
C16_NoRetry ==
    \A i \in 1..Len(requirements) :
        /\ Cardinality(InstallCmdEvents(i)) <= 1
        /\ \A k \in InstallCmdEvents(i) :
              /\ log[k].arg \in InstallCmds(requirements[i].pkg)
              /\ ~log[k].ok =>
                    /\ k = Len(log)
                    /\ pc = "Fatal"
                    /\ exitCode = 1
                    /\ requirements[i].pkg \notin installed
                    /\ log[k].arg = "yarn global add " \o requirements[i].pkg =>
                          \A j \in ReqEvents(i) :
                              log[j].arg \notin
                                {"npm", "npm install -g " \o requirements[i].pkg}

C16_Witness ==
    /\ {"yarn", "npm"} \subseteq start.onPath
    /\ Logged("cmd", "yarn global add csscomb", TRUE) \/ Logged("cmd", "yarn global add eslint-plugin-prettier", TRUE)
    /\ \E p \in {"prettier", "eslint-config-airbnb-base"} :
          /\ Logged("cmd", "yarn global add " \o p, FALSE)
          /\ ~Logged("cmd", "npm install -g " \o p, TRUE)
          /\ ~Logged("cmd", "npm install -g " \o p, FALSE)
    /\ pc = "Fatal"

----------------------------------------------------------------------------
(* Replace or skip.                                                        *)

\* copyFile was called on the path p.
Copied(p) == \E k \in 1..Len(log) : log[k].arg = p

\* C17 as stated: after a copyFile call on a destination that was there
\* before, whatever the answer and whether the call succeeded or failed, the
\* destination holds exactly its original content or exactly the asset's.
C17_ReplaceOrSkip_AsStated ==
    \A f \in AllFiles :
        LET p == path(f, root, dir)
        IN  (start.fs[p].exists /\ Copied(p)) =>
                \/ fs[p].exists /\ fs[p].bytes = start.fs[p].bytes
                \/ fs[p].exists /\ fs[p].bytes = f.asset.bytes

\* C17 amended: after a copyFile call on a destination that was there
\* before, the destination is exactly as it was when the stat failed, the
\* overwrite was declined or the remove failed; it holds exactly the asset's
\* content when the call succeeded after an accepted overwrite; and when the
\* write failed after the remove the original is gone and the destination is
\* absent (the open failed), holds an incomplete copy of the asset (the write
\* stopped short) or holds the whole asset (the close failed).  It never
\* holds both contents.
C17_ReplaceOrSkip ==
    \A f \in AllFiles :
        LET p == path(f, root, dir)
        IN  (start.fs[p].exists /\ Copied(p)) =>
                /\ \/ Logged("stat", p, FALSE)
                   \/ Logged("prompt", p, FALSE)
                   \/ Logged("remove", p, FALSE)
                   \/ Logged("write", p, TRUE)
                   \/ Logged("write", p, FALSE)
                /\ (\/ Logged("stat", p, FALSE)
                    \/ Logged("prompt", p, FALSE)
                    \/ Logged("remove", p, FALSE)) => fs[p] = start.fs[p]
                /\ Logged("write", p, TRUE) =>
                      /\ Logged("prompt", p, TRUE)
                      /\ fs[p].exists
                      /\ fs[p].bytes = f.asset.bytes
                /\ Logged("write", p, FALSE) =>
                      /\ Logged("remove", p, TRUE)
                      /\ pc = "Fatal"
                      /\ exitCode = 1
                      /\ fs[p].bytes # start.fs[p].bytes
                      /\ \/ ~fs[p].exists
                         \/ /\ fs[p].exists
                            /\ Len(fs[p].bytes) < Len(f.asset.bytes)
                            /\ fs[p].bytes = SubSeq(f.asset.bytes, 1, Len(fs[p].bytes))
                         \/ /\ fs[p].exists
                            /\ fs[p].bytes = f.asset.bytes

C17_Witness ==
    /\ start.fs[EslintrcPath] = CustomFile
    /\ Logged("prompt", EslintrcPath, TRUE)
    /\ Logged("remove", EslintrcPath, TRUE)
    /\ Logged("write", EslintrcPath, FALSE)
    /\ fs[EslintrcPath].exists
    /\ fs[EslintrcPath].bytes = files[2].asset.bytes
    /\ pc = "Fatal"

----------------------------------------------------------------------------
(* A second run with every overwrite declined.                             *)

AllDeclined == \A k \in 1..Len(log) : log[k].op = "prompt" => ~log[k].ok

\* Every install command issued so far succeeded.
InstallsOk ==
    \A k \in 1..Len(log) :
        (log[k].op = "cmd" /\ log[k].arg \notin GitCmds) => log[k].ok

\* C18: in a run started after a run that ended at Done, on the same host
\* with the same root and target directory, in which every install succeeds
\* and every overwrite is declined: no file is changed, created or removed
\* (.gitignore, the three config files and the hook are as the first run
\* left them), nothing is removed or written, the repository is as it was
\* and no version-control command (init, stage, commit) is issued; and when
\* none of the run's file system calls fails either, the run does not end
\* before Done, where it exits with code 0.
C18_SecondRunKeepsFiles ==
    (runs >= 2 /\ prevExit = 0 /\ AllDeclined /\ InstallsOk) =>
        /\ fs = start.fs
        /\ \A f \in AllFiles : fs[path(f, root, dir)].exists
        /\ \A k \in 1..Len(log) : log[k].op \notin {"remove", "write"}
        /\ git = start.git
        /\ \A k \in 1..Len(log) : log[k].arg \notin GitCmds
        /\ AllOpsOk => pc # "Fatal"
        /\ pc = "Done" => exitCode = 0

C18_Witness ==
    /\ runs = 2
    /\ prevExit = 0
    /\ pc = "Done"
    /\ exitCode = 0
    /\ AllOpsOk
    /\ \A f \in AllFiles \ {gitignore} : Logged("prompt", path(f, root, dir), FALSE)
    /\ Logged("cmd", "yarn global add eslint-plugin-prettier", TRUE)
    /\ fs = start.fs
    /\ \E p \in ConfigPaths : fs[p] = CustomFile

----------------------------------------------------------------------------
(* The initial commit and the hook.                                        *)

\* The places in the log where the commit command was issued.
CommitAt == {k \in 1..Len(log) : log[k].arg = "git commit -am"}

\* C19: when the commit command is issued, the .gitignore stage is through
\* (the file is there), each of the three config files has been dealt with
\* and is there, and nothing of these two stages comes after it; the hook
\* was not there when the run started and has not been prompted for,
\* removed or written before the commit: whatever touches the hook comes
\* after it.
C19_CommitBeforeHook ==
    \A c \in CommitAt :
        /\ fs[GitignorePath].exists
        /\ \A i \in 1..Len(files) :
              /\ fs[path(files[i], root, dir)].exists
              /\ \E j \in 1..(c - 1) :
                    log[j].stage = "DeployConfigAssets" /\ log[j].item = i
        /\ \A j \in 1..Len(log) :
              /\ log[j].stage \in {"EnsureGitignore", "DeployConfigAssets"} => j < c
              /\ log[j].arg = HookPath => j > c
        /\ ~start.fs[HookPath].exists
        /\ c = Len(log) => ~fs[HookPath].exists

C19_Witness ==
    /\ CommitAt # {}
    /\ pc = "Done"
    /\ Logged("write", HookPath, TRUE)
    /\ fs[HookPath].exists
    /\ HookPath \notin git.commits[Len(git.commits)]
    /\ GitignorePath \in git.commits[Len(git.commits)]

----------------------------------------------------------------------------
(* Termination.                                                            *)

Count(op, args) ==
    Cardinality({k \in 1..Len(log) : log[k].op = op /\ log[k].arg \in args})

AllInstallCmds == UNION {InstallCmds(requirements[i].pkg) : i \in 1..Len(requirements)}

AllDestinations == {path(f, root, dir) : f \in AllFiles}

\* What a run has used so far: install commands, copyFile calls that got to
\* the prompt, the remove or the write, and version-control commands.
ResourceBounds ==
    /\ Count("cmd", AllInstallCmds) <= 8
    /\ Count("prompt", AllDestinations) <= 5
    /\ Count("remove", AllDestinations) <= 5
    /\ Count("write", AllDestinations) <= 5
    /\ Count("stat", AllDestinations) <= 1
    /\ Count("cmd", GitCmds) <= 3
    /\ \A k \in 1..Len(log) :
          log[k].op = "cmd" => log[k].arg \in AllInstallCmds \cup GitCmds

\* C20: when every call the program makes returns, every run ends, at Done
\* or by the fatal exit, and all along it has issued at most 8 install
\* commands, dealt with at most 5 files and issued at most 3
\* version-control commands.
C20_Terminates ==
    /\ <>Terminated
    /\ []ResourceBounds

C20_Witness ==
    /\ pc = "Done"
    /\ Count("cmd", AllInstallCmds) = 8
    /\ Count("write", AllDestinations) = 5
    /\ Count("cmd", GitCmds) = 3

====
